---- MODULE Spec2Model ----
(***************************************************************************)
(* Monte Carlo evaluation of the uncertainty of ODR fit coefficients, as   *)
(* run by src/main/ODR_MC/branches/v11/MCerrst.py.                         *)
(*                                                                         *)
(* The script is a straight-line program followed by one loop; the model   *)
(* follows its program counter.  Matrices are sequences of rows; Python    *)
(* column c of a matrix is column c+1 here.  The harmonisation matrices    *)
(* have 7 columns: Lref, Cspace, Cict, CEarth, Lict, To, K.                *)
(***************************************************************************)
EXTENDS Integers, Sequences, FiniteSets, TLC

\* ------------------------------------------------------------------ sizes

\* number of matchup records in the pair's file (Im[0,2])
NoMU == 2
\* p = avhrrNx.nocoefs: calibration coefficients a0..a3 of one sensor
NoCoefs == 4
\* m = avhrrNx.novars: Cs, Cict, CE, Lict, To
NoVars == 5
\* columns of Hd, Hr, Hs and of the error matrix
NoCols == 7
\* notr: number of MC trials
notr == 3

Recs == 1..NoMU
Cols == 1..NoCols
XCols == 1..NoVars

\* column numbers of the harmonisation matrices
cLref == 1
cCs == 2
cCict == 3
cCE == 4
cLict == 5
cTo == 6
cK == 7

\* a standard-normal draw, abstracted to its sign
Draws == {-1, 1}
\* values a fitted free coefficient can take
CoefVals == {0, 1}
\* ODR halting codes (odr.Output.info): 1 = sum-of-squares convergence,
\* 4 = iteration limit reached (not converged)
InfoCodes == {1, 4}
Converged(info) == info <= 3

\* the value of a script name that is not bound yet
Undef == <<>>
\* the contents of a row of numpy.empty() that was never assigned
Garbage == <<>>

\* ------------------------------------------------------------ input files

\* One netCDF file of a sensor pair, <<ur, us, lines>>.  ur names the column
\* whose random uncertainty is 1 (0: none), us the column whose systematic
\* uncertainty is 1 (0: none); every other uncertainty is 0.  lines is the
\* number of scanlines the matchups lie on: 1 (all on one scanline) or NoMU
\* (each on its own).
\* The files of the main data folder:
MainScen ==
  {<<0, 0, 1>>, <<1, 0, NoMU>>, <<2, 0, 1>>, <<2, 0, NoMU>>, <<3, 0, 1>>,
   <<3, 0, NoMU>>, <<4, 0, 1>>, <<5, 0, NoMU>>, <<6, 0, 1>>, <<7, 0, NoMU>>}
\* The files of the newSim_notime folder:
NotimeScen ==
  {<<0, 0, 1>>, <<2, 0, NoMU>>, <<7, 0, NoMU>>, <<0, 5, 1>>}

FileH == [r \in Recs |-> [c \in Cols |-> 10 * r + c]]
FileUr(ur) == [r \in Recs |-> [c \in Cols |-> IF c = ur THEN 1 ELSE 0]]
FileUs(us) == [r \in Recs |-> [c \in Cols |-> IF c = us THEN 1 ELSE 0]]
FileCorIdx(lines) == [r \in Recs |-> IF lines = 1 THEN 1 ELSE r]
\* the scanline uncertainty of a record's counts is that of its scanline
FileScanUr(ur, col, lines) ==
  [r \in Recs |-> IF ur = col THEN FileCorIdx(lines)[r] ELSE 0]

FileOf(s) ==
  [H |-> FileH, Ur |-> FileUr(s[1]), Us |-> FileUs(s[2]),
   corIdx |-> FileCorIdx(s[3]),
   csUr |-> FileScanUr(s[1], cCs, s[3]),
   cictUr |-> FileScanUr(s[1], cCict, s[3])]

\* the runs: the script's notime switch and the file it then reads
Runs ==
  {<<FALSE, FileOf(s)>> : s \in MainScen} \cup
  {<<TRUE, FileOf(s)>> : s \in NotimeScen}

VARIABLES
  pc,        \* position of the script
  notime,    \* the script's switch between the two data sets
  file,      \* the netCDF file the script reads
  beta,      \* initial values of the ODR coefficients
  Hd, Hr, Hs, corIdx, csUr, cictUr,   \* what rHDpair returned
  fixb, fixx,                         \* ifixb, ifixx masks
  podrCall,  \* the arguments the best-estimate fit was called with
  podr,      \* the best-estimate fit's output
  bodr, X, Y, \* podr.beta, podr.xplus.T, podr.y
  sLict, sTo,
  slt, midx, mcnt, rCSar, rCICTar,    \* scanline grouping
  i,         \* loop variable of the trial loop
  mcb,       \* table of trial results
  errStr, Xdt, Ydt,                   \* the current trial's data
  mcodrCall, \* the arguments of the last trial fit
  mcodr,     \* the last trial fit's output
  saved,     \* contents of the results file (Undef: not written)
  nsaves,    \* number of times the results file was written
  trace,     \* history: the steps of the trial loop taken so far
  fits,      \* history: the output of every trial fit, in order
  prev,      \* the results file of the run before this one (Undef: none)
  runNo,     \* 1 in the first run of the script, 2 in a rerun
  mcStatsArg, \* the table mcCorr handed to vis.mcStats (Undef: not called)
  mcCov,     \* the covariance mcCorr returned
  \* tools/AVHRR_to_updated_spec.py, the converter of match-up files:
  tpc,       \* position in main()
  label,     \* the bad-data label return_valid_averages_mask was given
  sensor_1_name, H, K, Kr, Ks, time_sensor_1, time_sensor_2,
  u_C_S_sensor_1, u_C_ICT_sensor_1, u_C_S_sensor_2, u_C_ICT_sensor_2,
  Ur, Us,
  valid_averages,
  m1, m2, X1, Ur1, Us1, X2, Ur2, Us2,
  w_matrices, uncertainty_vectors,
  w_matrix_use1, w_matrix_use2,
  uncertainty_vector_use1, uncertainty_vector_use2,
  uncertainty_type1, uncertainty_type2,
  outfile,   \* the variables written to the output file (Undef: none)
  \* ODR_MC/branches/v3/readHD.py, rHData building the series matrix:
  rpc,       \* position in rHData
  nclist,    \* the list of netCDF files, in the order given
  ncfile,    \* position in nclist of the file the loop is at (0: none yet)
  pairData,  \* what rHDpair returned for that file
  Im, Hdata, Hrnd, tidx,   \* the arrays rHData accumulates
  \* ODR_MC/branches/v11/plotMCres.py, one call of plotSDfit:
  gpc,       \* position in plotSDfit ("raised": left by an exception)
  noMU, nobj, weight, odrSD, sdHrnd,   \* its arguments (sdHrnd: Hrnd)
  wlab, LEres, Xerr, selMU,   \* its locals (Undef: not bound; wlab a text
                              \* in a tuple)
  resLfitCalls, \* the graphs drawn so far, as the arguments of vis.resLfit
  raised     \* the exception that ended the call (Undef: none)

vars ==
  <<pc, notime, file, beta, Hd, Hr, Hs, corIdx, csUr, cictUr, fixb, fixx,
    podrCall, bodr, X, Y, sLict, sTo, slt, midx, mcnt, rCSar, rCICTar, i,
    mcb, errStr, Xdt, Ydt, mcodrCall, mcodr, saved, nsaves, trace, fits,
    podr, prev, runNo, mcStatsArg, mcCov, tpc, label, sensor_1_name, H, K,
    Kr, Ks, time_sensor_1, time_sensor_2, u_C_S_sensor_1, u_C_ICT_sensor_1,
    u_C_S_sensor_2, u_C_ICT_sensor_2, Ur, Us, valid_averages, m1, m2, X1,
    Ur1, Us1, X2, Ur2, Us2, w_matrices, uncertainty_vectors, w_matrix_use1,
    w_matrix_use2, uncertainty_vector_use1, uncertainty_vector_use2,
    uncertainty_type1, uncertainty_type2, outfile, rpc, nclist, ncfile,
    pairData, Im, Hdata, Hrnd, tidx, gpc, noMU, nobj, weight, odrSD, sdHrnd,
    wlab, LEres, Xerr, selMU, resLfitCalls, raised>>

inputs == <<notime, file, beta>>
bestEst ==
  <<Hd, Hr, Hs, corIdx, csUr, cictUr, fixb, fixx, podrCall, podr, bodr, X, Y>>
grouping == <<sLict, sTo, slt, midx, mcnt, rCSar, rCICTar>>
trial == <<errStr, Xdt, Ydt, mcodrCall, mcodr>>
output == <<saved, nsaves>>
history == <<trace, fits>>
rerun == <<prev, runNo>>
report == <<mcStatsArg, mcCov>>
matchup ==
  <<sensor_1_name, H, K, Kr, Ks, time_sensor_1, time_sensor_2,
    u_C_S_sensor_1, u_C_ICT_sensor_1, u_C_S_sensor_2, u_C_ICT_sensor_2>>
blocks == <<m1, m2, X1, Ur1, Us1, X2, Ur2, Us2>>
wdata == <<w_matrices, uncertainty_vectors>>
uses ==
  <<w_matrix_use1, w_matrix_use2, uncertainty_vector_use1,
    uncertainty_vector_use2, uncertainty_type1, uncertainty_type2>>
tool ==
  <<tpc, label, matchup, Ur, Us, valid_averages, blocks, wdata, uses, outfile>>

series == <<rpc, nclist, ncfile, pairData, Im, Hdata, Hrnd, tidx>>
sdArgs == <<noMU, nobj, weight, odrSD, sdHrnd>>
sdLocals == <<wlab, LEres, Xerr, selMU>>
sdfit == <<gpc, sdArgs, sdLocals, resLfitCalls, raised>>

\* rHData not called
SeriesUnbound ==
  /\ rpc = "idle"
  /\ nclist = Undef /\ ncfile = 0 /\ pairData = Undef
  /\ Im = Undef /\ Hdata = Undef /\ Hrnd = Undef /\ tidx = Undef

\* plotSDfit not called
SDfitUnbound ==
  /\ gpc = "idle"
  /\ noMU = Undef /\ nobj = Undef /\ weight = Undef
  /\ odrSD = Undef /\ sdHrnd = Undef
  /\ wlab = Undef /\ LEres = Undef /\ Xerr = Undef /\ selMU = Undef
  /\ resLfitCalls = <<>> /\ raised = Undef

\* the converter before main() is entered: no name is bound
ToolUnbound ==
  /\ label = Undef
  /\ sensor_1_name = Undef /\ H = Undef /\ K = Undef /\ Kr = Undef /\ Ks = Undef
  /\ time_sensor_1 = Undef /\ time_sensor_2 = Undef
  /\ u_C_S_sensor_1 = Undef /\ u_C_ICT_sensor_1 = Undef
  /\ u_C_S_sensor_2 = Undef /\ u_C_ICT_sensor_2 = Undef
  /\ Ur = Undef /\ Us = Undef
  /\ valid_averages = Undef
  /\ m1 = Undef /\ m2 = Undef
  /\ X1 = Undef /\ Ur1 = Undef /\ Us1 = Undef
  /\ X2 = Undef /\ Ur2 = Undef /\ Us2 = Undef
  /\ w_matrices = Undef /\ uncertainty_vectors = Undef
  /\ w_matrix_use1 = Undef /\ w_matrix_use2 = Undef
  /\ uncertainty_vector_use1 = Undef /\ uncertainty_vector_use2 = Undef
  /\ uncertainty_type1 = Undef /\ uncertainty_type2 = Undef
  /\ outfile = Undef

Init ==
  /\ pc = "start"
  /\ \E run \in Runs : notime = run[1] /\ file = run[2]
  /\ beta = [j \in 1..NoCoefs |-> 0]
  /\ Hd = Undef /\ Hr = Undef /\ Hs = Undef
  /\ corIdx = Undef /\ csUr = Undef /\ cictUr = Undef
  /\ fixb = Undef /\ fixx = Undef
  /\ podrCall = Undef /\ podr = Undef
  /\ bodr = Undef /\ X = Undef /\ Y = Undef
  /\ sLict = 0 /\ sTo = 0
  /\ slt = Undef /\ midx = Undef /\ mcnt = Undef
  /\ rCSar = Undef /\ rCICTar = Undef
  /\ i = 0
  /\ mcb = Undef
  /\ errStr = Undef /\ Xdt = Undef /\ Ydt = Undef
  /\ mcodrCall = Undef /\ mcodr = Undef
  /\ saved = Undef
  /\ nsaves = 0
  /\ trace = <<>>
  /\ fits = <<>>
  /\ prev = Undef
  /\ runNo = 1
  /\ mcStatsArg = Undef
  /\ mcCov = Undef
  /\ tpc = "idle"
  /\ ToolUnbound
  /\ SeriesUnbound
  /\ SDfitUnbound

\* ------------------------------------------------------- reading the data

\* rHDpair: the harmonisation arrays of the pair's file
rHDpair(f) ==
  [Hd |-> f.H, Hr |-> f.Ur, Hs |-> f.Us, corIdx |-> f.corIdx,
   csUr |-> f.csUr, cictUr |-> f.cictUr]

\* Hr[:,5] = 1.
SetToUnc(hr) == [r \in DOMAIN hr |-> [hr[r] EXCEPT ![cTo] = 1]]

\* resetHs(Hs, rsp): the systematic uncertainties are replaced by preset
\* ones; the result has the shape of Hs and one value per column.
resetHs(hs) ==
  {[r \in DOMAIN hs |-> [c \in Cols |-> IF c = us THEN 1 ELSE 0]] :
     us \in {0, cLict, cTo}}

\* a mask that fixes no coefficient
MakeFixbAllFree == [j \in 1..NoCoefs |-> 1]

\* parfix = ones(p); parfix[-1] = 0
MakeFixb == [j \in 1..NoCoefs |-> IF j = NoCoefs THEN 0 ELSE 1]
\* varfix = ones(m); varfix[-1] = 0
MakeFixx == [v \in XCols |-> IF v = NoVars THEN 0 ELSE 1]

ReadData ==
  /\ pc = "start"
  /\ LET d == rHDpair(file) IN
       /\ Hd' = d.Hd
       /\ corIdx' = d.corIdx
       /\ csUr' = d.csUr
       /\ cictUr' = d.cictUr
       /\ IF notime
            THEN /\ Hr' = SetToUnc(d.Hr)
                 /\ Hs' = d.Hs
                 /\ UNCHANGED <<fixb, fixx>>
            ELSE /\ Hr' = d.Hr
                 /\ Hs' \in resetHs(d.Hs)
                 /\ fixb' = MakeFixb
                 /\ fixx' = MakeFixx
  /\ pc' = "bestfit"
  /\ UNCHANGED <<inputs, podrCall, podr, bodr, X, Y, grouping, i, mcb,
                 trial, output, history, rerun, report,
                 tool, series, sdfit>>

\* ----------------------------------------------------------- the ODR fit

\* an entry of an ifixb / ifixx mask that holds its coefficient / variable
\* fixed; a mask that is not given fixes nothing
IsFixed(mask, j) == mask # Undef /\ mask[j] = 0

\* explanatory variables and response of a harmonisation data matrix
XofH(h) == [r \in DOMAIN h |-> [v \in XCols |-> h[r][v + 1]]]
YofH(h) == [r \in DOMAIN h |-> h[r][cLref] + h[r][cK]]

\* The solutions the solver may return for a fit started at beta0: a fixed
\* coefficient keeps its start value, a fixed variable keeps its input value.
OdrBeta(beta0, ifixb, b) ==
  [j \in DOMAIN beta0 |-> IF IsFixed(ifixb, j) THEN beta0[j] ELSE b]
OdrXplus(x, ifixx, b) ==
  [r \in DOMAIN x |->
     [v \in XCols |-> IF IsFixed(ifixx, v) THEN x[r][v] ELSE x[r][v] + b]]
OdrY(y, b) == [r \in DOMAIN y |-> y[r] + b]

\* har.odrP(Hd, Hr, beta, avhrrNx[, fixb, fixx, Hs])
odrP(hd, hr, beta0, ifixb, ifixx, hs) ==
  {[beta |-> OdrBeta(beta0, ifixb, b),
    xplus |-> OdrXplus(XofH(hd), ifixx, b),
    y |-> OdrY(YofH(hd), b)] : b \in CoefVals}

\* har.odr4MC(Xdt, Ydt, Hr, bodr, avhrrNx[, fixb, fixx, Hs])
odr4MC(xdt, ydt, hr, beta0, ifixb, ifixx, hs) ==
  {[beta |-> OdrBeta(beta0, ifixb, b), info |-> s] :
     b \in CoefVals, s \in InfoCodes}

FitCall(x, y, hr, beta0, ifixb, ifixx, hs) ==
  [x |-> x, y |-> y, Hr |-> hr, beta0 |-> beta0, ifixb |-> ifixb,
   ifixx |-> ifixx, Hs |-> hs]

\* the arguments of the best-estimate fit, lines 49 and 73
BestFitArgs ==
  IF notime
    THEN FitCall(XofH(Hd), YofH(Hd), Hr, beta, Undef, Undef, Undef)
    ELSE FitCall(XofH(Hd), YofH(Hd), Hr, beta, fixb, fixx, Hs)

BestFit ==
  /\ pc = "bestfit"
  /\ podrCall' = BestFitArgs
  /\ podr' \in odrP(Hd, Hr, BestFitArgs.beta0, BestFitArgs.ifixb,
                    BestFitArgs.ifixx, BestFitArgs.Hs)
  /\ bodr' = podr'.beta
  /\ Y' = podr'.y
  /\ X' = podr'.xplus
  /\ pc' = "prepare"
  /\ UNCHANGED <<inputs, Hd, Hr, Hs, corIdx, csUr, cictUr, fixb, fixx,
                 grouping, i, mcb, trial, output, history, rerun, report,
                 tool, series, sdfit>>

\* ------------------------------------------------- scanlines, result table

RECURSIVE SortedSeq(_)
SortedSeq(S) ==
  IF S = {} THEN <<>>
  ELSE LET mn == CHOOSE x \in S : \A y \in S : x <= y
       IN <<mn>> \o SortedSeq(S \ {mn})

\* numpy.unique(a, return_index=True, return_counts=True)
UniqueVals(a) == SortedSeq({a[r] : r \in DOMAIN a})
FirstIndex(a, v) ==
  CHOOSE r \in DOMAIN a : a[r] = v /\ \A q \in DOMAIN a : a[q] = v => r <= q
\* the index of the last record of every value in place of the first
UniqueIndexLast(a) ==
  [g \in DOMAIN UniqueVals(a) |->
     CHOOSE r \in DOMAIN a :
        a[r] = UniqueVals(a)[g] /\ \A q \in DOMAIN a : a[q] = a[r] => q <= r]

UniqueIndex(a) ==
  [g \in DOMAIN UniqueVals(a) |-> FirstIndex(a, UniqueVals(a)[g])]
UniqueCounts(a) ==
  [g \in DOMAIN UniqueVals(a) |->
     Cardinality({r \in DOMAIN a : a[r] = UniqueVals(a)[g]})]

\* mcb = empty([notr, p+1]): no row holds a defined value yet
EmptyTable == [k \in 1..notr |-> Garbage]

\* the systematic uncertainty read from the To column whatever the variable
SysUncOfTo(hs, c) == hs[1][cTo]

\* Hs[0,4], Hs[0,5]: the systematic uncertainty of a variable, taken from
\* the first record
SysUnc(hs, c) == hs[1][c]

Prepare ==
  /\ pc = "prepare"
  /\ sLict' = SysUnc(Hs, cLict)
  /\ sTo' = SysUnc(Hs, cTo)
  /\ slt' = UniqueVals(corIdx)
  /\ midx' = UniqueIndex(corIdx)
  /\ mcnt' = UniqueCounts(corIdx)
  /\ rCSar' = [g \in DOMAIN UniqueIndex(corIdx) |-> csUr[UniqueIndex(corIdx)[g]]]
  /\ rCICTar' = [g \in DOMAIN UniqueIndex(corIdx) |-> cictUr[UniqueIndex(corIdx)[g]]]
  /\ mcb' = EmptyTable
  /\ i' = 0
  /\ pc' = "gen"
  /\ UNCHANGED <<inputs, bestEst, trial, output, history, rerun, report,
                 tool, series, sdfit>>

\* ------------------------------------------------------ the error generator

RECURSIVE SumTo(_, _)
SumTo(cnt, g) == IF g = 0 THEN 0 ELSE cnt[g] + SumTo(cnt, g - 1)

\* the scanline group of record r, the records being laid out group after
\* group with cnt[g] records in group g
GroupOf(r, cnt) ==
  CHOOSE g \in DOMAIN cnt : SumTo(cnt, g - 1) < r /\ r <= SumTo(cnt, g)

\* one draw per record, scaled by the record's random uncertainty
IndepErrs(hr, c) ==
  {[r \in DOMAIN hr |-> z[r] * hr[r][c]] : z \in [DOMAIN hr -> Draws]}

\* one draw per scanline group, scaled by the group's uncertainty and
\* given to every record of the group
ScanErrs(hr, u, cnt) ==
  {[r \in DOMAIN hr |-> z[GroupOf(r, cnt)] * u[GroupOf(r, cnt)]] :
     z \in [DOMAIN cnt -> Draws]}

\* one draw per trial, scaled by the systematic uncertainty
SysErrs(hr, s) == {[r \in DOMAIN hr |-> z * s] : z \in Draws}

AddVec(a, b) == [r \in DOMAIN a |-> a[r] + b[r]]

\* mce.genErr(Hr, sLict, sTo, rCSar, rCICTar, slt, corLen, mcnt): the error
\* matrices one call may return, one row per record and one column per
\* column of Hr
genErr(hr, slict, sto, rcs, rcict, cnt) ==
  {[r \in DOMAIN hr |->
      <<eLref[r], eCs[r], eCict[r], eCE[r], eLict[r], eTo[r], eK[r]>>] :
     eLref \in IndepErrs(hr, cLref),
     eCs \in ScanErrs(hr, rcs, cnt),
     eCict \in ScanErrs(hr, rcict, cnt),
     eCE \in IndepErrs(hr, cCE),
     eLict \in {AddVec(a, b) : a \in IndepErrs(hr, cLict), b \in SysErrs(hr, slict)},
     eTo \in {AddVec(a, b) : a \in IndepErrs(hr, cTo), b \in SysErrs(hr, sto)},
     eK \in IndepErrs(hr, cK)}

\* ------------------------------------------------------------ the MC trials

\* the error columns taken one column too far left, errStr[:,0:5]
PerturbXShifted(x, err) ==
  [r \in DOMAIN x |-> [v \in XCols |-> x[r][v] + err[r][v]]]

\* Xdt = X.T + errStr[:,1:6]
PerturbX(x, err) ==
  [r \in DOMAIN x |-> [v \in XCols |-> x[r][v] + err[r][v + 1]]]
\* Ydt = Y + errStr[:,0] + errStr[:,6]
PerturbY(y, err) ==
  [r \in DOMAIN y |-> y[r] + err[r][cLref] + err[r][cK]]

\* the perturbation done in place, X += errStr[:,1:6]
CompileDataInPlace ==
  /\ pc = "gen"
  /\ errStr' \in genErr(Hr, sLict, sTo, rCSar, rCICTar, mcnt)
  /\ X' = [r \in DOMAIN X |-> [v \in XCols |-> X[r][v] + errStr'[r][v + 1]]]
  /\ Xdt' = X'
  /\ Ydt' = [r \in DOMAIN Y |-> Y[r] + errStr'[r][cLref] + errStr'[r][cK]]
  /\ trace' = trace \o <<<<"gen", i>>, <<"perturb", i>>>>
  /\ pc' = "fit"
  /\ UNCHANGED <<inputs, Hd, Hr, Hs, corIdx, csUr, cictUr, fixb, fixx,
                 podrCall, podr, bodr, Y, grouping, i, mcb, mcodrCall, mcodr,
                 output, fits, rerun, report,
                 tool, series, sdfit>>

\* the error generator handed the arrays of the records in place of those of
\* the scanlines, every record counting as a scanline of its own
CompileDataUngrouped ==
  /\ pc = "gen"
  /\ errStr' \in genErr(Hr, sLict, sTo, csUr, cictUr, [r \in Recs |-> 1])
  /\ Xdt' = [r \in DOMAIN X |-> [v \in XCols |-> X[r][v] + errStr'[r][v + 1]]]
  /\ Ydt' = [r \in DOMAIN Y |-> Y[r] + errStr'[r][cLref] + errStr'[r][cK]]
  /\ trace' = trace \o <<<<"gen", i>>, <<"perturb", i>>>>
  /\ pc' = "fit"
  /\ UNCHANGED <<inputs, bestEst, grouping, i, mcb, mcodrCall, mcodr,
                 output, fits, rerun, report, tool, series, sdfit>>

\* The trial loop, for i in range(notr) with i counted from 0.  Its first
\* block compiles the data of the ODR run: one error draw, then X and Y of
\* the best estimate with the draw added.
CompileData ==
  /\ pc = "gen"
  /\ errStr' \in genErr(Hr, sLict, sTo, rCSar, rCICTar, mcnt)
  /\ Xdt' = PerturbX(X, errStr')
  /\ Ydt' = PerturbY(Y, errStr')
  /\ trace' = trace \o <<<<"gen", i>>, <<"perturb", i>>>>
  /\ pc' = "fit"
  /\ UNCHANGED <<inputs, bestEst, grouping, i, mcb, mcodrCall, mcodr,
                 output, fits, rerun, report,
                 tool, series, sdfit>>

\* trial fits started from the generic initial guess
TrialFitArgsFromBeta ==
  IF notime
    THEN FitCall(Xdt, Ydt, Hr, beta, Undef, Undef, Undef)
    ELSE FitCall(Xdt, Ydt, Hr, beta, fixb, fixx, Hs)

\* the arguments of the trial fit, lines 125 and 127
TrialFitArgs ==
  IF notime
    THEN FitCall(Xdt, Ydt, Hr, bodr, Undef, Undef, Undef)
    ELSE FitCall(Xdt, Ydt, Hr, bodr, fixb, fixx, Hs)

\* the trial fit, its output being one of results
FitStep(results) ==
  /\ pc = "fit"
  /\ mcodrCall' = TrialFitArgs
  /\ mcodr' \in results
  /\ trace' = Append(trace, <<"fit", i>>)
  /\ fits' = Append(fits, mcodr')
  /\ pc' = "store"
  /\ UNCHANGED <<inputs, bestEst, grouping, i, mcb, errStr, Xdt, Ydt,
                 output, rerun, report,
                 tool, series, sdfit>>

Fit ==
  FitStep(odr4MC(TrialFitArgs.x, TrialFitArgs.y, TrialFitArgs.Hr,
                 TrialFitArgs.beta0, TrialFitArgs.ifixb, TrialFitArgs.ifixx,
                 TrialFitArgs.Hs))

\* a row that leaves the halting code out
TrialRowNoInfo(res) == res.beta

\* mcb[i, 0:p] = mcodr.beta; mcb[i,p] = mcodr.info
TrialRow(res) == res.beta \o <<res.info>>

\* a table that records the converged trials only
StoreRowIfConverged(tab, k, res) ==
  IF Converged(res.info) THEN [tab EXCEPT ![k + 1] = res.beta \o <<res.info>>]
  ELSE tab

StoreRow(tab, k, res) == [tab EXCEPT ![k + 1] = TrialRow(res)]

\* a loop that ends one trial early
MoreTrialsShort(k) == k + 2 < notr

\* the trials left after trial k
MoreTrials(k) == k + 1 < notr

Store ==
  /\ pc = "store"
  /\ mcb' = StoreRow(mcb, i, mcodr)
  /\ trace' = Append(trace, <<"store", i>>)
  /\ IF MoreTrials(i)
       THEN i' = i + 1 /\ pc' = "gen"
       ELSE i' = i /\ pc' = "save"
  /\ UNCHANGED <<inputs, bestEst, grouping, trial, output, fits, rerun, report,
                 tool, series, sdfit>>

\* savetxt(fn, mcb, delimiter=',')
Save ==
  /\ pc = "save"
  /\ saved' = mcb
  /\ nsaves' = nsaves + 1
  /\ pc' = "done"
  /\ UNCHANGED <<inputs, bestEst, grouping, i, mcb, trial, history, rerun, report,
                 tool, series, sdfit>>

\* ------------------------------------------------- after the trials: plots

RECURSIVE SumSeq(_)
SumSeq(q) == IF q = <<>> THEN 0 ELSE Head(q) + SumSeq(Tail(q))

\* loadtxt(fname, delimiter=','): the table savetxt wrote, every value as
\* written; a file of one line is read as a vector, not as a table of one row
loadtxt(f) == IF Len(f) = 1 THEN f[1] ELSE f

\* the whole table, status column included, mcb[:,0:p]
CoefColumnsAndInfo(tab) == tab

\* mcb[:,0:p-1] with p = mcb.shape[1]: every row, every column but the last
CoefColumns(tab) ==
  [k \in DOMAIN tab |-> SubSeq(tab[k], 1, Len(tab[1]) - 1)]

\* vis.mcStats(slab, mcb[:,0:p-1], beta, cov): mean and covariance of the
\* columns of a table of n rows, as exact fractions: the mean of column j is
\* sum[j] / n, the covariance of columns j and l is cross[j][l] / (n (n-1))
ColumnSum(tab, j) == SumSeq([k \in DOMAIN tab |-> tab[k][j]])
ColumnCross(tab, j, l) ==
  Len(tab) * SumSeq([k \in DOMAIN tab |-> tab[k][j] * tab[k][l]])
    - ColumnSum(tab, j) * ColumnSum(tab, l)
mcStats(tab) ==
  [n |-> Len(tab),
   sum |-> [j \in DOMAIN tab[1] |-> ColumnSum(tab, j)],
   cross |-> [j \in DOMAIN tab[1] |->
                [l \in DOMAIN tab[1] |-> ColumnCross(tab, j, l)]]]

\* Lines 146-158, after the file is written: the graphs of the best-estimate
\* fit (plotSDfit), then
\*   mcCov = mcr.mcCorr(fn, s2, bodr, covodr, 'MC with error structure')
\* and the graphs of the MC results (plotMCres), the last statement of the
\* script.  The plotting calls read their arguments and change none.
mcCorr ==
  /\ pc = "done"
  /\ mcStatsArg' = CoefColumns(loadtxt(saved))
  /\ mcCov' = mcStats(mcStatsArg')
  /\ pc' = "end"
  /\ UNCHANGED <<inputs, bestEst, grouping, i, mcb, trial, output, history,
                 rerun, tool, series, sdfit>>

\* An exception raised by a call (a missing or malformed file, a failing
\* fit) is caught nowhere: the script ends.
Fatal ==
  /\ pc \in {"start", "bestfit", "fit"}
  /\ pc' = "crashed"
  /\ UNCHANGED <<inputs, bestEst, grouping, i, mcb, trial, output, history,
                 rerun, report,
                 tool, series, sdfit>>

Next ==
  \/ ReadData
  \/ BestFit
  \/ Prepare
  \/ CompileData
  \/ Fit
  \/ Store
  \/ Save
  \/ mcCorr
  \/ Fatal

Spec == Init /\ [][Next]_vars

\* ------------------------------------------------------ running it again

\* The solver is a deterministic program: the same data give the same fit.
\* This stand-in returns one of the solutions of odr4MC, chosen by the data.
DataSum(xdt, ydt) ==
  SumSeq(ydt) + SumSeq([r \in DOMAIN xdt |-> SumSeq(xdt[r])])

odr4MCdet(xdt, ydt, hr, beta0, ifixb, ifixx, hs) ==
  {[beta |-> OdrBeta(beta0, ifixb, (DataSum(xdt, ydt) \div 4) % 2),
    info |-> IF (DataSum(xdt, ydt) \div 2) % 2 = 0 THEN 1 ELSE 4]}

FitDet ==
  FitStep(odr4MCdet(TrialFitArgs.x, TrialFitArgs.y, TrialFitArgs.Hr,
                    TrialFitArgs.beta0, TrialFitArgs.ifixb,
                    TrialFitArgs.ifixx, TrialFitArgs.Hs))

\* The script is started a second time on the same file.  The lines before
\* the loop draw nothing at random and compute the same best estimate again;
\* the loop starts over, and the results file of the first run is still there
\* until savetxt overwrites it.  The script sets no seed and hands genErr no
\* generator: the draws of the rerun are fresh ones.
Rerun ==
  /\ pc = "done"
  /\ runNo = 1
  /\ runNo' = 2
  /\ prev' = saved
  /\ pc' = "gen"
  /\ i' = 0
  /\ mcb' = EmptyTable
  /\ errStr' = Undef /\ Xdt' = Undef /\ Ydt' = Undef
  /\ mcodrCall' = Undef /\ mcodr' = Undef
  /\ trace' = <<>>
  /\ fits' = <<>>
  /\ UNCHANGED <<inputs, bestEst, grouping, output, report, tool, series, sdfit>>

InitRerun ==
  /\ Init
  /\ notime = FALSE
  /\ file = FileOf(<<cCs, 0, 1>>)

NextRerun ==
  \/ ReadData
  \/ BestFit
  \/ Prepare
  \/ CompileData
  \/ FitDet
  \/ Store
  \/ Save
  \/ Rerun

SpecRerun == InitRerun /\ [][NextRerun]_vars

\* ======================================== the converter of match-up files
\* src/main/tools/AVHRR_to_updated_spec.py.  H, Ur and Us have 10 columns,
\* Python columns 0..4 for sensor 1 and 5..9 for sensor 2: Cspace, Cict,
\* CEarth, Lict, To.

\* the script's names are unbound while the converter runs
ScriptIdle ==
  /\ pc = "idle"
  /\ notime = FALSE /\ file = Undef /\ beta = Undef
  /\ Hd = Undef /\ Hr = Undef /\ Hs = Undef
  /\ corIdx = Undef /\ csUr = Undef /\ cictUr = Undef
  /\ fixb = Undef /\ fixx = Undef
  /\ podrCall = Undef /\ podr = Undef
  /\ bodr = Undef /\ X = Undef /\ Y = Undef
  /\ sLict = 0 /\ sTo = 0
  /\ slt = Undef /\ midx = Undef /\ mcnt = Undef
  /\ rCSar = Undef /\ rCICTar = Undef
  /\ i = 0 /\ mcb = Undef
  /\ errStr = Undef /\ Xdt = Undef /\ Ydt = Undef
  /\ mcodrCall = Undef /\ mcodr = Undef
  /\ saved = Undef /\ nsaves = 0
  /\ trace = <<>> /\ fits = <<>>
  /\ prev = Undef /\ runNo = 1
  /\ mcStatsArg = Undef /\ mcCov = Undef

script ==
  <<pc, inputs, bestEst, grouping, i, mcb, trial, output, history, rerun,
    report>>

\* numpy.nan, set apart from every uncertainty (none is negative)
NaN == -1
\* a fill value that marks bad data in place of NaN
Fill == 9999
isnan(x) == x = NaN

\* the columns of H, Ur, Us
NoHCols == 10
\* Python column 9 of H: To of sensor 2
cTo2 == 10

\* One row of a scanline-uncertainty array, the averaging kernel of match-up
\* r: "full" has every value, "nan" lacks one (NaN), "fill" lacks one (Fill)
URow(r, kind) ==
  IF kind = "nan" THEN <<r, NaN>>
  ELSE IF kind = "fill" THEN <<Fill, r>>
  ELSE <<r, r>>
UArrays(kinds) == {[r \in Recs |-> URow(r, k[r])] : k \in [Recs -> kinds]}

\* return_valid_averages_mask(u11, u12, u21, u22, label=nan)
HasNaN(row) == \E w \in DOMAIN row : isnan(row[w])
return_valid_averages_mask(u11, u12, u21, u22, lbl) ==
  IF isnan(lbl)
    THEN [r \in DOMAIN u11 |->
            ~(HasNaN(u11[r]) \/ HasNaN(u12[r]) \/ HasNaN(u21[r]) \/ HasNaN(u22[r]))]
    ELSE [r \in DOMAIN u11 |-> TRUE]

\* the function called on its own, with a label of the caller's choice
CallMask ==
  /\ tpc = "call"
  /\ \E u11, u12, u21, u22 \in UArrays({"full", "nan", "fill"}),
        lbl \in {NaN, Fill} :
       /\ u_C_S_sensor_1' = u11 /\ u_C_ICT_sensor_1' = u12
       /\ u_C_S_sensor_2' = u21 /\ u_C_ICT_sensor_2' = u22
       /\ label' = lbl
       /\ valid_averages' = return_valid_averages_mask(u11, u12, u21, u22, lbl)
  /\ tpc' = "returned"
  /\ UNCHANGED <<script, series, sdfit, sensor_1_name, H, K, Kr, Ks, time_sensor_1,
                 time_sensor_2, Ur, Us, blocks, wdata, uses, outfile>>

InitMask ==
  ScriptIdle /\ tpc = "call" /\ ToolUnbound /\ SeriesUnbound /\ SDfitUnbound
NextMask == CallMask
SpecMask == InitMask /\ [][NextMask]_vars

\* ------------------------------------------------------------------ main()

\* The arrays of a match-up file.  A value names its match-up r and its
\* column c; To of sensor 2 is 0 in every match-up ("zero"), in the first
\* one only ("mixed") or in none ("set").
MatchupH(to2) ==
  [r \in Recs |->
     [c \in 1..NoHCols |->
        IF c = cTo2 /\ (to2 = "zero" \/ (to2 = "mixed" /\ r = 1))
          THEN 0 ELSE 20 * r + c]]
MatchupU == [r \in Recs |-> [c \in 1..NoHCols |-> 20 * r + c]]
MatchupVec == [r \in Recs |-> r]

\* a[mask] and a[mask, :]: the rows of a whose mask entry is True, in order
RECURSIVE Masked(_, _)
Masked(a, mask) ==
  IF a = <<>> THEN <<>>
  ELSE (IF Head(mask) THEN <<Head(a)>> ELSE <<>>) \o
       Masked(Tail(a), Tail(mask))

\* a[:, cols] = 0
ZeroCols(a, cols) ==
  [r \in DOMAIN a |-> [c \in DOMAIN a[r] |-> IF c \in cols THEN 0 ELSE a[r][c]]]

\* (a[:, c] == 0).all()
AllZero(a, c) == \A r \in DOMAIN a : a[r][c] = 0

\* a[mask, from:from+n]
Block(a, mask, from, n) ==
  Masked([r \in DOMAIN a |-> SubSeq(a[r], from + 1, from + n)], mask)

\* the number of columns of a[:, from:from+n], a having NoHCols columns
Shape1(from, n) == IF from + n <= NoHCols THEN n ELSE NoHCols - from

\* lines 526-532: read the file; find the match-ups with a full averaging
\* kernel
ReadMatchup ==
  /\ tpc = "main"
  /\ \E s1 \in {-1, 1}, to2 \in {"zero", "mixed", "set"},
        u11, u12, u21, u22 \in UArrays({"full", "nan"}) :
       /\ sensor_1_name' = s1
       /\ H' = MatchupH(to2)
       /\ u_C_S_sensor_1' = u11 /\ u_C_ICT_sensor_1' = u12
       /\ u_C_S_sensor_2' = u21 /\ u_C_ICT_sensor_2' = u22
       /\ valid_averages' = return_valid_averages_mask(u11, u12, u21, u22, NaN)
  /\ label' = NaN
  /\ Ur' = MatchupU /\ Us' = MatchupU
  /\ K' = MatchupVec /\ Kr' = MatchupVec /\ Ks' = MatchupVec
  /\ time_sensor_1' = MatchupVec /\ time_sensor_2' = MatchupVec
  /\ tpc' = "reset"
  /\ UNCHANGED <<script, series, sdfit, blocks, wdata, uses, outfile>>

\* the counts' random uncertainty of sensor 2 alone set to 0
ResetUrSensor2 ==
  /\ tpc = "reset"
  /\ Ur' = ZeroCols(Ur, {6, 7})
  /\ Us' = IF sensor_1_name # -1 THEN Us ELSE ZeroCols(Us, {1})
  /\ tpc' = "split"
  /\ UNCHANGED <<script, series, sdfit, label, matchup, valid_averages, blocks, wdata, uses,
                 outfile>>

\* lines 534-539: remove incorrect assignment in Ur array
ResetUr ==
  /\ tpc = "reset"
  /\ IF sensor_1_name # -1
       THEN Ur' = ZeroCols(Ur, {1, 2, 6, 7}) /\ Us' = Us
       ELSE Ur' = ZeroCols(Ur, {6, 7}) /\ Us' = ZeroCols(Us, {1})
  /\ tpc' = "split"
  /\ UNCHANGED <<script, series, sdfit, label, matchup, valid_averages, blocks, wdata, uses,
                 outfile>>

\* lines 540-557: X1, X2, Ur1, Ur2, Us1 and Us2.  The del of H, Ur and Us
\* unbinds names no later line reads.
SplitBlocks ==
  /\ tpc = "split"
  /\ m1' = IF sensor_1_name = -1 THEN 1
           ELSE IF AllZero(H, cTo2) THEN 4 ELSE 5
  /\ m2' = IF AllZero(H, cTo2) THEN 4 ELSE 5
  /\ X1' = Block(H, valid_averages, 0, m1')
  /\ Ur1' = Block(Ur, valid_averages, 0, m1')
  /\ Us1' = Block(Us, valid_averages, 0, m1')
  /\ X2' = Block(H, valid_averages, 5, m2')
  /\ Ur2' = Block(Ur, valid_averages, 5, m2')
  /\ Us2' = Block(Us, valid_averages, 5, m2')
  /\ tpc' = "wmatrices"
  /\ UNCHANGED <<script, series, sdfit, label, matchup, Ur, Us, valid_averages, wdata, uses,
                 outfile>>

\* generate_rolling_average_w_matrix(time, width, u): a W matrix and an
\* uncertainty vector, each known here by the arrays it was made from
generate_rolling_average_w_matrix(time, u) ==
  [W |-> [time |-> time, u |-> u], uncertainty_vector |-> [time |-> time, u |-> u]]

\* return_w_matrices(u_C_S_sensor_1, u_C_ICT_sensor_1, u_C_S_sensor_2,
\*                   u_C_ICT_sensor_2, time_sensor_1, width_sensor_1,
\*                   time_sensor_2, width_sensor_2, sensor_i_name)
return_w_matrices(u11, u12, u21, u22, t1, t2, sensor_i_name) ==
  LET s2S == generate_rolling_average_w_matrix(t2, u21)
      s2ICT == generate_rolling_average_w_matrix(t2, u22)
      s1S == generate_rolling_average_w_matrix(t1, u11)
      s1ICT == generate_rolling_average_w_matrix(t1, u12)
  IN IF sensor_i_name # -1
       THEN [w_matrices |-> <<s1S.W, s2S.W>>,
             uncertainty_vectors |->
               <<s1S.uncertainty_vector, s1ICT.uncertainty_vector,
                 s2S.uncertainty_vector, s2ICT.uncertainty_vector>>]
       ELSE [w_matrices |-> <<s2S.W>>,
             uncertainty_vectors |->
               <<s2S.uncertainty_vector, s2ICT.uncertainty_vector>>]

\* lines 562-570: lists of W matrices and uncertainty vectors
WMatrices ==
  /\ tpc = "wmatrices"
  /\ LET w == return_w_matrices(Masked(u_C_S_sensor_1, valid_averages),
                                Masked(u_C_ICT_sensor_1, valid_averages),
                                Masked(u_C_S_sensor_2, valid_averages),
                                Masked(u_C_ICT_sensor_2, valid_averages),
                                Masked(time_sensor_1, valid_averages),
                                Masked(time_sensor_2, valid_averages),
                                sensor_1_name)
     IN /\ w_matrices' = w.w_matrices
        /\ uncertainty_vectors' = w.uncertainty_vectors
  /\ tpc' = "use"
  /\ UNCHANGED <<script, series, sdfit, label, matchup, Ur, Us, valid_averages, blocks, uses,
                 outfile>>

\* the use array of five columns whatever the block has
WUseFive(k, cols) == <<k, k, 0, 0, 0>>

\* array([k, k, 0, 0, 0]) and array([k, k, 0, 0]): the W matrix of the columns
WUse(k, cols) == IF cols = 4 THEN <<k, k, 0, 0>> ELSE <<k, k, 0, 0, 0>>
\* array([k, l, 0, 0, 0]) and array([k, l, 0, 0]): their uncertainty vectors
UUse(k, l, cols) == IF cols = 4 THEN <<k, l, 0, 0>> ELSE <<k, l, 0, 0, 0>>

\* the internal-target radiance labelled type 2 with or without To
TypeArrayLict2(cols) == IF cols = 4 THEN <<3, 3, 1, 2>> ELSE <<3, 3, 1, 2, 2>>

\* array([3, 3, 1, 2, 2]) and array([3, 3, 1, 1]): the uncertainty types
TypeArray(cols) == IF cols = 4 THEN <<3, 3, 1, 1>> ELSE <<3, 3, 1, 2, 2>>

\* lines 577-605: assign type/use matrices; X2.shape[1] decides between the
\* arrays of five and of four columns, sensor_1_name == -1 gives the reference
\* block its arrays of one column
AssignUse ==
  /\ tpc = "use"
  /\ LET cols == Shape1(5, m2)
         ref == sensor_1_name = -1
     IN /\ w_matrix_use1' = IF ref THEN <<0>> ELSE WUse(1, cols)
        /\ w_matrix_use2' = IF ref THEN WUse(1, cols) ELSE WUse(2, cols)
        /\ uncertainty_vector_use1' = IF ref THEN <<0>> ELSE UUse(1, 2, cols)
        /\ uncertainty_vector_use2' =
             IF ref THEN UUse(1, 2, cols) ELSE UUse(3, 4, cols)
        /\ uncertainty_type1' = IF ref THEN <<1>> ELSE TypeArray(cols)
        /\ uncertainty_type2' = TypeArray(cols)
  /\ tpc' = "write"
  /\ UNCHANGED <<script, series, sdfit, label, matchup, Ur, Us, valid_averages, blocks, wdata,
                 outfile>>

\* the variables write_input_file and append_W_to_input_file create, K given
WrittenFile(k) ==
  [M |-> Len(X1), m1 |-> Shape1(0, m1), m2 |-> Shape1(5, m2),
   X1 |-> X1, X2 |-> X2, Ur1 |-> Ur1, Ur2 |-> Ur2, Us1 |-> Us1, Us2 |-> Us2,
   uncertainty_type1 |-> uncertainty_type1,
   uncertainty_type2 |-> uncertainty_type2,
   K |-> k,
   Kr |-> Masked(Kr, valid_averages), Ks |-> Masked(Ks, valid_averages),
   time1 |-> Masked(time_sensor_1, valid_averages),
   time2 |-> Masked(time_sensor_2, valid_averages),
   w_matrix_count |-> Len(w_matrices),
   u_matrix_count |-> Len(uncertainty_vectors),
   w_matrix_use1 |-> w_matrix_use1, w_matrix_use2 |-> w_matrix_use2,
   u_matrix_use1 |-> uncertainty_vector_use1,
   u_matrix_use2 |-> uncertainty_vector_use2]

\* K written as read, the mask left out
WriteFileAllK ==
  /\ tpc = "write"
  /\ outfile' = WrittenFile(K)
  /\ tpc' = "end"
  /\ UNCHANGED <<script, series, sdfit, label, matchup, Ur, Us, valid_averages, blocks, wdata,
                 uses>>

\* lines 607-622: write_input_file, then append_W_to_input_file
WriteFile ==
  /\ tpc = "write"
  /\ outfile' = WrittenFile(Masked(K, valid_averages))
  /\ tpc' = "end"
  /\ UNCHANGED <<script, series, sdfit, label, matchup, Ur, Us, valid_averages, blocks, wdata,
                 uses>>

InitTool ==
  ScriptIdle /\ tpc = "main" /\ ToolUnbound /\ SeriesUnbound /\ SDfitUnbound
NextTool ==
  \/ ReadMatchup
  \/ ResetUr
  \/ SplitBlocks
  \/ WMatrices
  \/ AssignUse
  \/ WriteFile
SpecTool == InitTool /\ [][NextTool]_vars

\* ================================ the series matrix (readHD.py, branch v3)
\* src/main/ODR_MC/branches/v3/readHD.py.  A netCDF file holds one pair of
\* sensors: lm = [[sensor 1, sensor 2, number of match-ups]] with sensor 1
\* = -1 for the reference, H, Ur, Us with 10 columns (Python column 0 the
\* reference radiance, 1..4 the remaining variables of sensor 1, 5..9
\* Cspace, Cict, CEarth, Lict, To of sensor 2), and K, Kr, Ks.

\* most files in a list handed to rHData
MaxFiles == 2
\* columns of the series matrix
NoSeriesCols == 14
\* the pairs of the series
SeriesPairs == {<<-1, 15>>, <<15, 16>>, <<-1, 16>>}

\* 'n' + str(n)
nLabel(n) == IF n = 15 THEN "n15" ELSE IF n = 16 THEN "n16" ELSE "n-1"
\* the label of a sensor as the file names spell it
SensorLabel(n) == IF n = -1 THEN "m02" ELSE nLabel(n)

\* A value of H names its match-up r and its column c; the columns a
\* reference pair leaves empty hold 0.  The uncertainties and the K values
\* are set apart from the data and from each other.
PairH(s1, nor) ==
  [r \in 1..nor |->
     [c \in 1..NoHCols |-> IF s1 = -1 /\ c \in 2..5 THEN 0 ELSE 20 * r + c]]
Offset(h, d) ==
  [r \in DOMAIN h |-> [c \in DOMAIN h[r] |-> IF h[r][c] = 0 THEN 0 ELSE h[r][c] + d]]
PairFile(p, nor) ==
  [name |-> <<SensorLabel(p[1]), SensorLabel(p[2])>>,
   lm |-> <<<<p[1], p[2], nor>>>>,
   H |-> PairH(p[1], nor),
   Ur |-> Offset(PairH(p[1], nor), 1000),
   Us |-> Offset(PairH(p[1], nor), 2000),
   K |-> [r \in 1..nor |-> 500 + r],
   Kr |-> [r \in 1..nor |-> 1500 + r],
   Ks |-> [r \in 1..nor |-> 2500 + r],
   CorrIndexArray |-> [r \in 1..nor |-> 100 * p[2] + r],
   corrData |-> <<25>>]
PairFiles == {PairFile(p, nor) : p \in SeriesPairs, nor \in Recs}

\* a[:, cols] for a list of Python column numbers
TakeCols(a, cols) ==
  [r \in DOMAIN a |-> [c \in DOMAIN cols |-> a[r][cols[c] + 1]]]

\* np.zeros((nor, noc)) with m written to the Python columns from..from+
\* width-1 and k to the last column:
\*   Hdata[:,:-1] = H         (from = 0)
\*   Hdata[:,1:11] = H        (from = 1)
\*   Hdata[:,noc-1] = K
PairMatrix(nor, noc, from, m, k) ==
  [r \in 1..nor |->
     [c \in 1..noc |->
        IF c = noc THEN k[r]
        ELSE IF c - 1 >= from /\ c - from <= Len(m[r]) THEN m[r][c - from]
        ELSE 0]]

\* the systematic uncertainties written one column to the right
rHDpairSysShifted(f) ==
  LET nor == f.lm[1][3]
      noc == IF f.lm[1][1] = -1 THEN 7 ELSE NoHCols + 2
      didx == <<0, 5, 6, 7, 8, 9>>
      pick(a) == IF f.lm[1][1] = -1 THEN TakeCols(a, didx) ELSE a
      from == IF f.lm[1][1] = -1 THEN 0 ELSE 1
  IN [rspair |-> IF f.lm[1][1] = -1 THEN 1 ELSE 0,
      Im |-> f.lm,
      Hdata |-> PairMatrix(nor, noc, from, pick(f.H), f.K),
      Hrnd |-> PairMatrix(nor, noc, from, pick(f.Ur), f.Kr),
      Hsys |-> PairMatrix(nor, noc, from + 1, pick(f.Us), f.Ks),
      corIdx |-> f.CorrIndexArray,
      corLen |-> f.corrData]

\* rHDpair(folder, filename) of branch v3:
\*   return rspair,Im,Hdata,Hrnd,Hsys,corIdx,corLen
rHDpair_v3(f) ==
  LET Im0 == f.lm
      nor == Im0[1][3]
  IN IF Im0[1][1] = -1
       THEN LET didx == <<0, 5, 6, 7, 8, 9>>
                H0 == TakeCols(f.H, didx)
                Ur0 == TakeCols(f.Ur, didx)
                Us0 == TakeCols(f.Us, didx)
                noc == Len(didx) + 1
            IN [rspair |-> 1, Im |-> Im0,
                Hdata |-> PairMatrix(nor, noc, 0, H0, f.K),
                Hrnd |-> PairMatrix(nor, noc, 0, Ur0, f.Kr),
                Hsys |-> PairMatrix(nor, noc, 0, Us0, f.Ks),
                corIdx |-> f.CorrIndexArray, corLen |-> f.corrData]
       ELSE LET noc == NoHCols + 2
            IN [rspair |-> 0, Im |-> Im0,
                Hdata |-> PairMatrix(nor, noc, 1, f.H, f.K),
                Hrnd |-> PairMatrix(nor, noc, 1, f.Ur, f.Kr),
                Hsys |-> PairMatrix(nor, noc, 1, f.Us, f.Ks),
                corIdx |-> f.CorrIndexArray, corLen |-> f.corrData]

\* sensors(nclist): the labels netcdf[0:3] and netcdf[4:7] of the files, each
\* once, in the order they first occur
RECURSIVE sensorsFrom(_, _)
sensorsFrom(list, fsl) ==
  IF list = <<>> THEN fsl
  ELSE LET s1 == Head(list).name[1]
           s2 == Head(list).name[2]
           a == IF \E j \in DOMAIN fsl : fsl[j] = s1 THEN fsl ELSE Append(fsl, s1)
           b == IF \E j \in DOMAIN a : a[j] = s2 THEN a ELSE Append(a, s2)
       IN sensorsFrom(Tail(list), b)
sensors(list) == sensorsFrom(list, <<>>)

\* fsl.index(sl), counted from 0 as Python does
ListIndex(fsl, sl) == (CHOOSE j \in DOMAIN fsl : fsl[j] = sl) - 1

\* sl1 = 'm02' for a reference pair, else 'n' + str(lm[0,0])
FirstLabel(pd) == IF pd.rspair = 1 THEN "m02" ELSE nLabel(pd.Im[1][1])
\* sl2 = 'n' + str(lm[0,1])
SecondLabel(pd) == nLabel(pd.Im[1][2])

\* tH of one pair, lines 135-141, 146, 152-153
PairRows(pd, fsl) ==
  [r \in 1..pd.Im[1][3] |->
     [c \in 1..NoSeriesCols |->
        IF c = 13 THEN ListIndex(fsl, FirstLabel(pd))
        ELSE IF c = 14 THEN ListIndex(fsl, SecondLabel(pd))
        ELSE IF pd.rspair = 1
          THEN (IF c = 1 THEN pd.Hdata[r][1]
                ELSE IF c \in {2, 4} THEN 1
                ELSE IF c \in 7..12 THEN pd.Hdata[r][c - 5]
                ELSE 0)
          ELSE (IF c \in 2..12 THEN pd.Hdata[r][c - 1] ELSE 0)]]

\* tHr of one pair, lines 136, 142-143, 147, 154-155
PairRndRows(pd) ==
  [r \in 1..pd.Im[1][3] |->
     [c \in 1..NoSeriesCols |->
        IF c \in {13, 14} THEN 1
        ELSE IF pd.rspair = 1
          THEN (IF c = 1 THEN pd.Hrnd[r][1]
                ELSE IF c \in 7..12 THEN pd.Hrnd[r][c - 5]
                ELSE 0)
          ELSE (IF c \in 2..12 THEN pd.Hrnd[r][c - 1] ELSE 0)]]

\* the lists of files rHData is called with
RECURSIVE FileLists(_)
FileLists(n) ==
  IF n = 0 THEN {<<>>}
  ELSE FileLists(n - 1) \cup
       {Append(l, f) : l \in {m \in FileLists(n - 1) : Len(m) = n - 1},
                       f \in PairFiles}

\* rHData(folder, nclist), lines 119-125: the empty arrays
rHDataStart ==
  /\ rpc = "call"
  /\ nclist' \in FileLists(MaxFiles)
  /\ Im' = <<>> /\ Hdata' = <<>> /\ Hrnd' = <<>> /\ tidx' = <<>>
  /\ rpc' = "loop"
  /\ UNCHANGED <<script, tool, sdfit, ncfile, pairData>>

\* for ncfile in nclist: rsp,lm,Hd,Hr,Hs,corIdx,corLen = rHDpair(folder, ncfile)
ReadPair ==
  /\ rpc = "loop"
  /\ ncfile < Len(nclist)
  /\ ncfile' = ncfile + 1
  /\ pairData' = rHDpair_v3(nclist[ncfile'])
  /\ rpc' = "fill"
  /\ UNCHANGED <<script, tool, sdfit, nclist, Im, Hdata, Hrnd, tidx>>

\* lines 134-161: the rows of the pair, filled and appended
AppendPair ==
  /\ rpc = "fill"
  /\ Im' = Im \o pairData.Im
  /\ Hdata' = Hdata \o PairRows(pairData, sensors(nclist))
  /\ Hrnd' = Hrnd \o PairRndRows(pairData)
  /\ tidx' = tidx \o pairData.corIdx
  /\ rpc' = "loop"
  /\ UNCHANGED <<script, tool, sdfit, nclist, ncfile, pairData>>

\* return Im, Hdata, Hrnd, tidx
ReturnSeries ==
  /\ rpc = "loop"
  /\ ncfile = Len(nclist)
  /\ rpc' = "returned"
  /\ UNCHANGED <<script, tool, sdfit, nclist, ncfile, pairData, Im, Hdata,
                 Hrnd, tidx>>

InitSeries ==
  /\ ScriptIdle /\ tpc = "idle" /\ ToolUnbound /\ SDfitUnbound
  /\ rpc = "call"
  /\ nclist = Undef /\ ncfile = 0 /\ pairData = Undef
  /\ Im = Undef /\ Hdata = Undef /\ Hrnd = Undef /\ tidx = Undef
NextSeries ==
  \/ rHDataStart
  \/ ReadPair
  \/ AppendPair
  \/ ReturnSeries
SpecSeries == InitSeries /\ [][NextSeries]_vars

\* ======================================= the graphs of the best-estimate fit
\* src/main/ODR_MC/branches/v11/plotMCres.py, plotSDfit(avhrrS, noMU, nobj,
\* slab, muTime, Hrnd, odrSD, weight=None).  Records are numbered from 1.

\* Python's None, set apart from every weight given (the script gives 1)
None == 0
\* slab, the label of the sensor being fitted
slab == "n15"
\* muTime, the matchup times
muTime(n) == [r \in 1..n |-> 100 + r]

\* The output of the fit for n records: eps and delta are multiples of every
\* uncertainty below, so that the weighted values are whole numbers.
OdrOutput(n, scale) ==
  [beta |-> [j \in 1..NoCoefs |-> j],
   xplus |-> [r \in 1..n |-> [v \in XCols |-> 10 * r + v]],
   eps |-> [r \in 1..n |-> 30 * scale * r],
   delta |-> [r \in 1..n |-> [v \in XCols |-> 2 * scale * (r + v)]]]
\* the random uncertainties: of Lref and K 3 and 4, or 6 and 8; of X 2
RndMatrix(n, u) ==
  [r \in 1..n |->
     [c \in Cols |-> IF c = cLref THEN 3 * u ELSE IF c = cK THEN 4 * u ELSE 2]]

\* numpy.sqrt of a square number
sqrt(n) == CHOOSE k \in 0..n : k * k = n

\* avhrrS.measEq(Xdata, bodr), kept as the arguments of the call
measEq(x, b) == [r \in DOMAIN x |-> <<x[r], b>>]

\* what random.sample(range(n), k) may return
Samples(n, k) ==
  {s \in [1..k -> 1..n] : \A a, b \in 1..k : a # b => s[a] # s[b]}

\* a[selMU]
Take(a, sel) == [j \in DOMAIN sel |-> a[sel[j]]]
\* a[selMU, v]
TakeCol(a, sel, v) == [j \in DOMAIN sel |-> a[sel[j]][v]]

\* def plotSDfit(...), lines 49-55; Xerr = odrSD.delta.T
CallPlotSDfit ==
  /\ gpc = "call"
  /\ noMU' \in Recs
  /\ nobj' \in 1..(NoMU + 1)
  /\ weight' \in {None, 1}
  /\ \E scale \in {1, 2} : odrSD' = OdrOutput(noMU', scale)
  /\ \E u \in {1, 2} : sdHrnd' = RndMatrix(noMU', u)
  /\ Xerr' = odrSD'.delta
  /\ gpc' = "weigh"
  /\ UNCHANGED <<script, tool, series, wlab, LEres, selMU, resLfitCalls,
                 raised>>

\* if weight is not None:
WeightGiven(w) == w # None

\* lines 57-65
Weigh ==
  /\ gpc = "weigh"
  /\ IF WeightGiven(weight)
       THEN /\ wlab' = <<" weighted">>
            /\ LEres' =
                 [r \in 1..noMU |->
                    odrSD.eps[r] \div
                      sqrt(sdHrnd[r][cLref] * sdHrnd[r][cLref]
                           + sdHrnd[r][cK] * sdHrnd[r][cK])]
            /\ Xerr' =
                 [r \in 1..noMU |->
                    [v \in XCols |-> Xerr[r][v] \div sdHrnd[r][v + 1]]]
       ELSE UNCHANGED <<wlab, LEres, Xerr>>
  /\ gpc' = "select"
  /\ UNCHANGED <<script, tool, series, sdArgs, selMU, resLfitCalls, raised>>

\* selMU = sample(range(noMU), nobj): ValueError when the sample is larger
\* than the population
SelectMU ==
  /\ gpc = "select"
  /\ IF nobj > noMU
       THEN /\ raised' = "ValueError"
            /\ gpc' = "raised"
            /\ UNCHANGED selMU
       ELSE /\ selMU' \in Samples(noMU, nobj)
            /\ gpc' = "residuals"
            /\ UNCHANGED raised
  /\ UNCHANGED <<script, tool, series, sdArgs, wlab, LEres, Xerr,
                 resLfitCalls>>

\* lines 70-75: the graphs of the residuals.  Reading a local that no
\* statement has bound raises UnboundLocalError.
ResidualGraphs ==
  /\ gpc = "residuals"
  /\ IF wlab = Undef \/ LEres = Undef
       THEN /\ raised' = "UnboundLocalError"
            /\ gpc' = "raised"
            /\ UNCHANGED resLfitCalls
       ELSE /\ resLfitCalls' =
                 LET ttl == <<slab>> \o wlab \o <<" residuals from ODR fit">>
                     Xdata == odrSD.xplus
                     calL == measEq(Xdata, odrSD.beta)
                 IN << <<Take(LEres, selMU), Take(calL, selMU), ttl>>,
                       <<Take(LEres, selMU), TakeCol(Xdata, selMU, 4), ttl>>,
                       <<Take(LEres, selMU), TakeCol(Xdata, selMU, 5), ttl>> >>
            /\ gpc' = "errors"
            /\ UNCHANGED raised
  /\ UNCHANGED <<script, tool, series, sdArgs, sdLocals>>

\* lines 78-88: the graphs of the X errors against time, each a call of
\* vis.resLfit with the values, the times, the title and the variable named
ErrorGraphs ==
  /\ gpc = "errors"
  /\ resLfitCalls' =
       resLfitCalls \o
         [v \in XCols |->
            <<TakeCol(Xerr, selMU, v), Take(muTime(noMU), selMU),
              <<slab>> \o wlab \o <<" ODR evaluated true error of ">>, v>>]
  /\ gpc' = "returned"
  /\ UNCHANGED <<script, tool, series, sdArgs, sdLocals, raised>>

InitSDfit ==
  /\ ScriptIdle /\ tpc = "idle" /\ ToolUnbound /\ SeriesUnbound
  /\ gpc = "call"
  /\ noMU = Undef /\ nobj = Undef /\ weight = Undef
  /\ odrSD = Undef /\ sdHrnd = Undef
  /\ wlab = Undef /\ LEres = Undef /\ Xerr = Undef /\ selMU = Undef
  /\ resLfitCalls = <<>> /\ raised = Undef
NextSDfit ==
  \/ CallPlotSDfit
  \/ Weigh
  \/ SelectMU
  \/ ResidualGraphs
  \/ ErrorGraphs
SpecSDfit == InitSDfit /\ [][NextSDfit]_vars

\* =================================================================== claims

IsPrefix(a, b) ==
  Len(a) <= Len(b) /\ \A j \in 1..Len(a) : a[j] = b[j]

\* the steps of the first k trials, in the order the loop takes them
RECURSIVE ExpectedTrace(_)
ExpectedTrace(k) ==
  IF k = 0 THEN <<>>
  ELSE ExpectedTrace(k - 1) \o
       <<<<"gen", k - 1>>, <<"perturb", k - 1>>, <<"fit", k - 1>>,
         <<"store", k - 1>>>>

Stored(k) == \E j \in 1..Len(trace) : trace[j] = <<"store", k - 1>>
LoopDone == pc \in {"save", "done", "end"}

\* C1: the run executes exactly notr trials one after another: for each trial
\* i, in this order, an error draw, the perturbation, the fit and the
\* recording of row i; no trial starts before the one before it is recorded,
\* none runs twice and none is skipped, and a row is filled exactly when its
\* trial has recorded it.
C1_TrialsSequential ==
  /\ IsPrefix(trace, ExpectedTrace(notr))
  /\ LoopDone => trace = ExpectedTrace(notr)
  /\ mcb # Undef =>
       \A k \in 1..notr : (mcb[k] # Garbage) <=> Stored(k)

C1_Witness == pc = "done" /\ Len(trace) = 4 * notr /\ mcb[notr] # Garbage

\* C2: whatever halting code a trial's fit returns, converged or not, the
\* fitted coefficients and the code are written to the trial's row, and the
\* row is in the saved table.
RowIsFit(row, res) ==
  /\ Len(row) = NoCoefs + 1
  /\ \A j \in 1..NoCoefs : row[j] = res.beta[j]
  /\ row[NoCoefs + 1] = res.info

C2_NonConvergedRecorded ==
  /\ \A k \in 1..Len(fits) : Stored(k) => RowIsFit(mcb[k], fits[k])
  /\ saved # Undef =>
       \A k \in 1..notr : k <= Len(fits) /\ RowIsFit(saved[k], fits[k])

C2_Witness ==
  /\ saved # Undef
  /\ \E k \in 1..notr :
       ~Converged(fits[k].info) /\ RowIsFit(saved[k], fits[k])

\* C3 (as claimed): in every trial the variable the ifixx mask holds fixed
\* (To) receives no synthetic error: its column of the perturbed X equals its
\* best-estimate column.
C3_FixedVariableUnperturbed ==
  (fixx # Undef /\ Xdt # Undef) =>
     \A r \in DOMAIN Xdt : \A v \in XCols :
        IsFixed(fixx, v) => Xdt[r][v] = X[r][v]

\* C4: with the last coefficient and the last variable fixed (the run on the
\* main data), the last coefficient of every recorded row equals the last
\* coefficient of the best-estimate fit, in the table and in the saved file.
C4_LastCoefficientFixed ==
  ~notime =>
     /\ mcb # Undef =>
          \A k \in 1..notr :
             mcb[k] # Garbage => mcb[k][NoCoefs] = bodr[NoCoefs]
     /\ saved # Undef =>
          \A k \in 1..notr : saved[k][NoCoefs] = podr.beta[NoCoefs]

\* a full table whose free coefficients differ between rows while the fixed
\* one does not
C4_Witness ==
  /\ ~notime /\ saved # Undef
  /\ \E k, l \in 1..notr : saved[k][1] # saved[l][1]
  /\ \A k \in 1..notr : saved[k][NoCoefs] = bodr[NoCoefs]

\* C5: the data of a trial are the outputs of the best-estimate fit plus the
\* trial's errors, record by record: X of the trial is podr.xplus plus error
\* columns 1..5, Y of the trial is podr.y plus error column 0 (response) plus
\* error column 6 (K).
C5_PerturbBestEstimate ==
  Xdt # Undef =>
     \A r \in Recs :
        /\ \A v \in XCols : Xdt[r][v] = podr.xplus[r][v] + errStr[r][v + 1]
        /\ Ydt[r] = podr.y[r] + errStr[r][cLref] + errStr[r][cK]

\* a trial whose best estimate differs from the raw data and whose error is
\* not zero
C5_Witness ==
  /\ Xdt # Undef
  /\ podr.xplus # XofH(Hd)
  /\ \E r \in Recs : \E c \in Cols : errStr[r][c] # 0

\* C6: a step of the trial loop changes nothing a later trial reads: the best
\* estimate X, Y and bodr, the uncertainties Hr and Hs, the scanline grouping
\* and the masks stay as they are, and of the result table only the row of
\* the trial under way may change.
InLoop == pc \in {"gen", "fit", "store"}

C6_TrialsShareNothing ==
  [][InLoop =>
       /\ UNCHANGED <<X, Y, bodr, podr, Hd, Hr, Hs, fixb, fixx>>
       /\ UNCHANGED <<corIdx, csUr, cictUr, saved>>
       /\ UNCHANGED <<sLict, sTo, slt, midx, mcnt, rCSar, rCICTar>>
       /\ \A k \in 1..notr : k # i + 1 => mcb'[k] = mcb[k]]_vars

\* all trials done with a non-zero error in the last one, the best estimate
\* still being the output of the best-estimate fit
C6_Witness ==
  /\ pc = "done"
  /\ X = podr.xplus /\ Y = podr.y
  /\ \E r \in Recs : \E v \in XCols : Xdt[r][v] # X[r][v]

\* C7: every trial fit is started from the coefficients of the best-estimate
\* fit and is given the masks and the uncertainty matrices the best-estimate
\* fit was given, with or without time dependence.
C7_TrialFitConfiguration ==
  mcodrCall # Undef =>
     /\ mcodrCall.beta0 = podr.beta
     /\ mcodrCall.ifixb = podrCall.ifixb
     /\ mcodrCall.ifixx = podrCall.ifixx
     /\ mcodrCall.Hr = podrCall.Hr
     /\ mcodrCall.Hs = podrCall.Hs

\* a trial fit of a run whose best estimate is not the initial guess
C7_Witness ==
  /\ mcodrCall # Undef
  /\ podr.beta # beta
  /\ mcodrCall.ifixb # Undef

\* C8 (as claimed): running the whole procedure twice on the same inputs
\* gives the same table of trial results.
C8_RerunSameTable ==
  (runNo = 2 /\ pc = "done") => saved = prev

\* C9: the saved file is one table of notr rows and p+1 columns, the p
\* coefficients of a trial followed by its halting code, row k being trial
\* k's; it is written once, after all trials, and none of its rows is an
\* unassigned row of the buffer.
C9_SavedTableComplete ==
  /\ nsaves <= 1
  /\ (nsaves = 1) <=> (saved # Undef)
  /\ saved # Undef =>
       /\ trace = ExpectedTrace(notr)
       /\ DOMAIN saved = 1..notr
       /\ \A k \in 1..notr :
            /\ saved[k] # Garbage
            /\ DOMAIN saved[k] = 1..(NoCoefs + 1)
            /\ saved[k][NoCoefs + 1] = fits[k].info
            /\ SubSeq(saved[k], 1, NoCoefs) = fits[k].beta

C9_Witness ==
  /\ pc = "done" /\ nsaves = 1
  /\ Len(saved) = notr
  /\ \A k \in 1..notr : Len(saved[k]) = NoCoefs + 1

\* C10 (as claimed): when a trial after the first fails fatally, the results
\* of the trials before it are in the results file.
C10_PartialTablePersisted ==
  (pc = "crashed" /\ mcb # Undef /\ i >= 1) =>
     /\ saved # Undef
     /\ \A k \in 1..i : saved[k] = mcb[k]

\* C11: the statistics are computed only after all notr trials are recorded
\* and the table is saved: mcCorr reads the saved table back and hands
\* mcStats every row of it, the rows of non-converged trials too, with the p
\* coefficient columns and without the status column; the mean and the
\* covariance it returns are those of the coefficients of all trial fits.
C11_AggregationAfterSave ==
  /\ (mcStatsArg # Undef) <=> (pc = "end")
  /\ mcStatsArg # Undef =>
       /\ nsaves = 1 /\ saved # Undef
       /\ trace = ExpectedTrace(notr)
       /\ DOMAIN mcStatsArg = 1..notr
       /\ \A k \in 1..notr : mcStatsArg[k] = fits[k].beta
       /\ mcCov.n = notr
       /\ \A j \in 1..NoCoefs :
            /\ DOMAIN mcCov.sum = 1..NoCoefs
            /\ mcCov.sum[j] = SumSeq([k \in 1..notr |-> fits[k].beta[j]])
            /\ mcCov.cross[j][j] =
                 notr * SumSeq([k \in 1..notr |-> fits[k].beta[j] * fits[k].beta[j]])
                   - mcCov.sum[j] * mcCov.sum[j]

\* statistics over a table with a non-converged trial whose coefficients
\* differ from another trial's
C11_Witness ==
  /\ pc = "end"
  /\ \E k \in 1..notr : ~Converged(saved[k][NoCoefs + 1])
  /\ mcCov.cross[1][1] # 0

AfterPrepare ==
  pc \in {"gen", "fit", "store", "save", "done", "end"}

C13_SystematicScalar ==
  AfterPrepare =>
     /\ sLict = Hs[1][cLict]
     /\ sTo = Hs[1][cTo]
     /\ errStr # Undef =>
          /\ (\A r \in Recs : Hr[r][cLict] = 0) =>
               \E z \in Draws : \A r \in Recs : errStr[r][cLict] = z * sLict
          /\ (\A r \in Recs : Hr[r][cTo] = 0) =>
               \E z \in Draws : \A r \in Recs : errStr[r][cTo] = z * sTo

\* the third trial of a run whose Lict has a systematic uncertainty only:
\* every record carries the same non-zero Lict error
C13_Witness ==
  /\ pc = "fit" /\ i = notr - 1
  /\ sLict # 0 /\ sLict = Hs[1][cLict]
  /\ \A r \in Recs : Hr[r][cLict] = 0
  /\ \A r \in Recs : errStr[r][cLict] = errStr[1][cLict] /\ errStr[r][cLict] # 0

\* C14 (as claimed): in both run modes, without and with time dependence, a
\* random uncertainty of To that the file declares as 0 is replaced by a
\* non-zero value before the best-estimate fit and before every trial fit:
\* no fit is handed a zero uncertainty of To.
C14_ZeroUncertaintyReplaced ==
  /\ podrCall # Undef => \A r \in Recs : podrCall.Hr[r][cTo] # 0
  /\ mcodrCall # Undef => \A r \in Recs : mcodrCall.Hr[r][cTo] # 0

\* C15: the scanline grouping made before the trials, as every trial finds it
\* at its start, partitions the records:
\* one group per scanline index that occurs, in ascending order, every
\* record in exactly one group, the groups' counts adding up to the number
\* of records; midx names the first record of each group, and the group's
\* uncertainty of the space counts and of the internal-target counts is that
\* record's, which is also the value of every other record of the group.
Members(g) == {r \in Recs : corIdx[r] = slt[g]}

C15_ScanlinePartition ==
  pc = "gen" =>
     /\ DOMAIN midx = DOMAIN slt /\ DOMAIN mcnt = DOMAIN slt
     /\ DOMAIN rCSar = DOMAIN slt /\ DOMAIN rCICTar = DOMAIN slt
     /\ \A g, h \in DOMAIN slt : g < h => slt[g] < slt[h]
     /\ \A r \in Recs : Cardinality({g \in DOMAIN slt : r \in Members(g)}) = 1
     /\ \A g \in DOMAIN slt :
          /\ Members(g) # {}
          /\ mcnt[g] = Cardinality(Members(g))
          /\ midx[g] \in Members(g)
          /\ \A r \in Members(g) : midx[g] <= r
          /\ rCSar[g] = csUr[midx[g]]
          /\ rCICTar[g] = cictUr[midx[g]]
          /\ \A r \in Members(g) : csUr[r] = rCSar[g] /\ cictUr[r] = rCICTar[g]
     /\ SumSeq(mcnt) = NoMU

\* a scanline of several records with a non-zero uncertainty
C15_Witness ==
  /\ pc = "gen"
  /\ \E g \in DOMAIN slt : mcnt[g] > 1 /\ rCSar[g] # 0

\* C16 (as claimed): return_valid_averages_mask marks a match-up valid
\* exactly when none of its four rows of scanline uncertainties holds the
\* bad-data label, whether the label is NaN or another value.
HasLabel(row, lbl) == \E w \in DOMAIN row : row[w] = lbl

C16_MaskFollowsLabel ==
  tpc = "returned" =>
     \A r \in Recs :
        valid_averages[r] <=>
           ~(\/ HasLabel(u_C_S_sensor_1[r], label)
             \/ HasLabel(u_C_ICT_sensor_1[r], label)
             \/ HasLabel(u_C_S_sensor_2[r], label)
             \/ HasLabel(u_C_ICT_sensor_2[r], label))

\* C17: main() applies one mask, valid_averages, to every array that has a
\* row per match-up: the arrays it writes (X1, X2, Ur1, Ur2, Us1, Us2, K, Kr,
\* Ks, time1, time2) and the scanline uncertainties and times it makes the W
\* matrices from all have M rows, M the number of valid match-ups, and row j
\* of each is the row of the j-th valid match-up of the file.
NoValid == Cardinality({r \in Recs : valid_averages[r]})
Kept(j) ==
  CHOOSE r \in Recs :
     valid_averages[r] /\ Cardinality({q \in 1..r : valid_averages[q]}) = j
RowsKept(a, src) ==
  Len(a) = NoValid /\ \A j \in 1..NoValid : a[j] = src[Kept(j)]
SourceOfVector(k) ==
  IF sensor_1_name # -1
    THEN <<u_C_S_sensor_1, u_C_ICT_sensor_1, u_C_S_sensor_2, u_C_ICT_sensor_2>>[k]
    ELSE <<u_C_S_sensor_2, u_C_ICT_sensor_2>>[k]
TimeOfVector(k) ==
  IF sensor_1_name # -1 /\ k <= 2 THEN time_sensor_1 ELSE time_sensor_2

C17_OneMaskForAllArrays ==
  tpc = "end" =>
     /\ outfile.M = NoValid
     /\ RowsKept(outfile.X1, [r \in Recs |-> SubSeq(H[r], 1, m1)])
     /\ RowsKept(outfile.X2, [r \in Recs |-> SubSeq(H[r], 6, 5 + m2)])
     /\ RowsKept(outfile.Ur1, [r \in Recs |-> SubSeq(Ur[r], 1, m1)])
     /\ RowsKept(outfile.Ur2, [r \in Recs |-> SubSeq(Ur[r], 6, 5 + m2)])
     /\ RowsKept(outfile.Us1, [r \in Recs |-> SubSeq(Us[r], 1, m1)])
     /\ RowsKept(outfile.Us2, [r \in Recs |-> SubSeq(Us[r], 6, 5 + m2)])
     /\ RowsKept(outfile.K, K)
     /\ RowsKept(outfile.Kr, Kr)
     /\ RowsKept(outfile.Ks, Ks)
     /\ RowsKept(outfile.time1, time_sensor_1)
     /\ RowsKept(outfile.time2, time_sensor_2)
     /\ \A k \in DOMAIN uncertainty_vectors :
          /\ RowsKept(uncertainty_vectors[k].u, SourceOfVector(k))
          /\ RowsKept(uncertainty_vectors[k].time, TimeOfVector(k))
     /\ \A k \in DOMAIN w_matrices :
          /\ Len(w_matrices[k].u) = NoValid
          /\ Len(w_matrices[k].time) = NoValid

\* a file whose first match-up is masked out and whose last one is kept
C17_Witness ==
  /\ tpc = "end"
  /\ ~valid_averages[1] /\ valid_averages[NoMU]
  /\ outfile.M < NoMU
  /\ outfile.K[outfile.M] = K[NoMU]
  /\ outfile.X1[outfile.M][1] = H[NoMU][1]

\* C18: in each of the four configurations (sensor 1 the reference or not,
\* To of sensor 2 zero throughout or not) the use and type arrays of a block
\* are as long as the block has columns (m1 for X1, m2 for X2), every
\* non-zero entry of a w_matrix_use array is the 1-based number of a W matrix
\* return_w_matrices returned, and every non-zero entry of a u_matrix_use
\* array is the 1-based number of an uncertainty vector it returned.
UseFits(wuse, uuse, type, m) ==
  /\ Len(wuse) = m /\ Len(uuse) = m /\ Len(type) = m
  /\ \A c \in 1..m :
       /\ wuse[c] # 0 => wuse[c] \in 1..Len(w_matrices)
       /\ uuse[c] # 0 => uuse[c] \in 1..Len(uncertainty_vectors)

C18_UseArraysFit ==
  tpc = "end" =>
     /\ outfile.m1 = m1 /\ outfile.m2 = m2
     /\ \A j \in DOMAIN outfile.X1 :
          Len(outfile.X1[j]) = m1 /\ Len(outfile.X2[j]) = m2
     /\ m1 = (IF sensor_1_name = -1 THEN 1 ELSE m2)
     /\ m2 = (IF AllZero(H, cTo2) THEN 4 ELSE 5)
     /\ outfile.w_matrix_count = Len(w_matrices)
     /\ outfile.u_matrix_count = Len(uncertainty_vectors)
     /\ UseFits(outfile.w_matrix_use1, outfile.u_matrix_use1,
                outfile.uncertainty_type1, m1)
     /\ UseFits(outfile.w_matrix_use2, outfile.u_matrix_use2,
                outfile.uncertainty_type2, m2)

\* sensor 1 the reference and no To: a block of one column beside a block of
\* four that uses the only W matrix and both uncertainty vectors
C18_Witness ==
  /\ tpc = "end"
  /\ sensor_1_name = -1 /\ m1 = 1 /\ m2 = 4
  /\ Len(outfile.X2) > 0
  /\ outfile.w_matrix_use2 = <<1, 1, 0, 0>>
  /\ outfile.u_matrix_use2 = <<1, 2, 0, 0>>
  /\ outfile.w_matrix_count = 1 /\ outfile.u_matrix_count = 2

\* C19: in every block of a calibrated sensor that main() writes (X2 always,
\* X1 unless sensor 1 is the reference) the space counts and the
\* internal-target counts, and no other column, are the scanline-level ones:
\* a column has uncertainty type 3 exactly when its w_matrix_use entry is
\* not 0, exactly when its u_matrix_use entry is not 0, and the random
\* uncertainty written for such a column is 0 in every match-up.
ScanlineColumns(type, wuse, uuse, ur, m) ==
  \A c \in 1..m :
     /\ (type[c] = 3) <=> (c \in {1, 2})
     /\ (type[c] = 3) <=> (wuse[c] # 0)
     /\ (wuse[c] # 0) <=> (uuse[c] # 0)
     /\ type[c] = 3 => \A j \in DOMAIN ur : ur[j][c] = 0

C19_CountsAreScanlineLevel ==
  tpc = "end" =>
     /\ ScanlineColumns(outfile.uncertainty_type2, outfile.w_matrix_use2,
                        outfile.u_matrix_use2, outfile.Ur2, outfile.m2)
     /\ sensor_1_name # -1 =>
          ScanlineColumns(outfile.uncertainty_type1, outfile.w_matrix_use1,
                          outfile.u_matrix_use1, outfile.Ur1, outfile.m1)

\* two calibrated sensors and a match-up written: the counts' random
\* uncertainty is 0 in both blocks, that of the Earth counts is not
C19_Witness ==
  /\ tpc = "end"
  /\ sensor_1_name # -1
  /\ outfile.M > 0
  /\ outfile.Ur1[1][1] = 0 /\ outfile.Ur1[1][2] = 0 /\ outfile.Ur1[1][3] # 0
  /\ outfile.Ur2[1][1] = 0 /\ outfile.Ur2[1][2] = 0 /\ outfile.Ur2[1][3] # 0

\* C20 (as claimed): in every configuration main() writes, a calibrated
\* sensor's internal-target radiance (column 3 of its block, counted from 0)
\* has uncertainty type 2, its orbit temperature, when the block has one, has
\* type 2, and its Earth counts have type 1.
LictTypeTwo(type, m) ==
  /\ type[3] = 1
  /\ type[4] = 2
  /\ m = 5 => type[5] = 2

C20_LictAlwaysTypeTwo ==
  tpc = "end" =>
     /\ LictTypeTwo(outfile.uncertainty_type2, outfile.m2)
     /\ sensor_1_name # -1 =>
          LictTypeTwo(outfile.uncertainty_type1, outfile.m1)

\* C20 (amended): a calibrated sensor's Earth counts have type 1 in every
\* configuration; in a block with an orbit-temperature column (five columns)
\* the internal-target radiance and the orbit temperature have type 2; in a
\* block without one (four columns, To zero throughout) the internal-target
\* radiance has type 1.
TypesByColumns(type, m) ==
  /\ m \in {4, 5}
  /\ type[3] = 1
  /\ m = 5 => type[4] = 2 /\ type[5] = 2
  /\ m = 4 => type[4] = 1

C20_LictTypeFollowsTo ==
  tpc = "end" =>
     /\ TypesByColumns(outfile.uncertainty_type2, outfile.m2)
     /\ sensor_1_name # -1 =>
          TypesByColumns(outfile.uncertainty_type1, outfile.m1)

\* two calibrated sensors without To: the internal-target radiance of both
\* blocks is written with type 1
C20_Witness ==
  /\ tpc = "end"
  /\ sensor_1_name # -1
  /\ outfile.m1 = 4 /\ outfile.m2 = 4
  /\ outfile.uncertainty_type1[4] = 1 /\ outfile.uncertainty_type2[4] = 1

\* C21: for the file it read, rHDpair of branch v3 returns the data matrix,
\* the random-uncertainty matrix and the systematic-uncertainty matrix with
\* the same shape, one row per match-up and noc columns, column for column
\* the same variable, with K, Kr and Ks in the last column of their matrix:
\* for a reference pair the 7 columns Lref, Cspace, Cict, CEarth, Lict, To,
\* K; for a sensor-sensor pair a column of zeros, the 10 columns of H, K.
RefPairRow(h, k, r) ==
  <<h[r][1], h[r][6], h[r][7], h[r][8], h[r][9], h[r][10], k[r]>>
SensorPairRow(h, k, r) == <<0>> \o h[r] \o <<k[r]>>
ExpectedPairRow(f, h, k, r) ==
  IF f.lm[1][1] = -1 THEN RefPairRow(h, k, r) ELSE SensorPairRow(h, k, r)

C21_PairMatricesAligned ==
  rpc = "fill" =>
    LET f == nclist[ncfile]
        nor == f.lm[1][3]
        noc == IF f.lm[1][1] = -1 THEN 7 ELSE 12
    IN /\ \A m \in {pairData.Hdata, pairData.Hrnd, pairData.Hsys} :
            /\ Len(m) = nor
            /\ \A r \in 1..nor : Len(m[r]) = noc
       /\ \A r \in 1..nor :
            /\ pairData.Hdata[r] = ExpectedPairRow(f, f.H, f.K, r)
            /\ pairData.Hrnd[r] = ExpectedPairRow(f, f.Ur, f.Kr, r)
            /\ pairData.Hsys[r] = ExpectedPairRow(f, f.Us, f.Ks, r)

\* a sensor-sensor pair of several match-ups read after a reference pair
C21_Witness ==
  /\ rpc = "fill"
  /\ ncfile = 2
  /\ nclist[1].lm[1][1] = -1
  /\ pairData.rspair = 0
  /\ Len(pairData.Hsys) > 1
  /\ pairData.Hsys[2][12] = nclist[2].Ks[2]

\* C22 (as claimed): the series matrix rHData builds has one layout of 14
\* columns whatever the pair type: for every file appended so far and every
\* match-up of it, Cspace, Cict, CEarth, Lict, To of the second sensor are in
\* Python columns 6..10, K in column 11, the two sensors' positions in the
\* list of sensors in columns 12 and 13; Hdata, Hrnd and tidx have as many
\* rows as the files appended have match-ups.
RowsBefore(k) == SumSeq([j \in 1..(k - 1) |-> nclist[j].lm[1][3]])

C22_FixedSeriesLayout ==
  rpc \in {"loop", "returned"} =>
    /\ Len(Hdata) = RowsBefore(ncfile + 1)
    /\ Len(Hrnd) = RowsBefore(ncfile + 1)
    /\ Len(tidx) = RowsBefore(ncfile + 1)
    /\ \A k \in 1..ncfile : \A r \in 1..nclist[k].lm[1][3] :
         LET f == nclist[k]
             row == Hdata[RowsBefore(k) + r]
         IN /\ Len(row) = NoSeriesCols
            /\ Len(Hrnd[RowsBefore(k) + r]) = NoSeriesCols
            /\ \A v \in 1..5 : row[6 + v] = f.H[r][5 + v]
            /\ row[12] = f.K[r]
            /\ sensors(nclist)[row[13] + 1] = f.name[1]
            /\ sensors(nclist)[row[14] + 1] = f.name[2]

\* C23 (as claimed): a call of plotSDfit that has ended needed nobj <= noMU
\* to select its sample, and given that it returned after drawing the three
\* graphs of the residuals and the five graphs of the X errors: with a weight
\* the residuals divided by the uncertainty of Y and the X errors divided by
\* the random uncertainties of X, with weight None the residuals and the X
\* errors as the fit gave them.
SigmaY(r) ==
  sqrt(sdHrnd[r][cLref] * sdHrnd[r][cLref] + sdHrnd[r][cK] * sdHrnd[r][cK])
ResidualPlotted(r) ==
  IF weight = None THEN odrSD.eps[r] ELSE odrSD.eps[r] \div SigmaY(r)
XErrorPlotted(r, v) ==
  IF weight = None THEN odrSD.delta[r][v]
  ELSE odrSD.delta[r][v] \div sdHrnd[r][v + 1]

C23_WeightSwitch ==
  gpc \in {"returned", "raised"} =>
    IF nobj > noMU
      THEN gpc = "raised" /\ raised = "ValueError"
      ELSE /\ gpc = "returned"
           /\ Len(resLfitCalls) = 3 + NoVars
           /\ \A g \in 1..3 :
                resLfitCalls[g][1] =
                  [j \in DOMAIN selMU |-> ResidualPlotted(selMU[j])]
           /\ \A v \in XCols :
                resLfitCalls[3 + v][1] =
                  [j \in DOMAIN selMU |-> XErrorPlotted(selMU[j], v)]

====
